---- MODULE Spec2Model ----
(***************************************************************************)
(* Model of src/main.rs: a process that clones a git mirror when its path  *)
(* is absent, spawns a timer task that pulls the mirror, serves the        *)
(* directory over HTTP and exits on server termination or Ctrl-C.          *)
(*                                                                         *)
(* Threads.  main is #[actix_web::main] (line 28): the main future and the *)
(* tokio::spawn'ed timer task (line 57) are polled by ONE thread, so they  *)
(* interleave only at their await points (interval.tick().await, line 60;  *)
(* select!, line 77).  pull_repo has no await point.  The HTTP workers     *)
(* (line 71), the upstream repository, the signal and the file system run  *)
(* outside that thread and interleave with every step.                     *)
(*                                                                         *)
(* Git.  Commits are numbered 1..numCommits, parent[c] is the parent of c  *)
(* (0 for the root).  The working tree maps each file to the commit whose  *)
(* version of the file is on disk.  HEAD is 0 when it is the symbolic      *)
(* reference to refs/heads/master and c > 0 when detached at commit c.     *)
(***************************************************************************)
EXTENDS Integers, Sequences, FiniteSets, TLC

\* Bounds of the model.
MaxCommits == 4
NumFiles == 2

Files == 1..NumFiles
CommitIds == 1..MaxCommits

VARIABLES
    mainPc,        \* position of main (lines 29-93)
    schedPc,       \* position of the spawned timer task (lines 57-66, 124-171)
    serverState,   \* the HttpServer: none, bound, running, terminated, bind_failed, stopped
    serverResult,  \* what the server future resolved to: none, ok, err
    sigDelivered,  \* an interrupt signal has been delivered to the process
    winner,        \* the select! branch taken: none, server, interrupt
    exitCode,      \* process exit status, -1 while running
    log,           \* println! lines of main, in order
    dirKind,       \* what is at repo.path: absent, repo, notrepo
    initDir,       \* dirKind when the process started
    accessible,    \* repo.path can be opened (permissions, mount)
    cloneCalls,    \* number of calls of clone_repo
    numCommits,    \* commits that exist anywhere
    parent,        \* parent[c] of every existing commit
    upTip,         \* refs/heads/master of the remote repository
    master,        \* refs/heads/master of the mirror
    head,          \* HEAD of the mirror: 0 symbolic to master, c detached
    wt,            \* working tree of the mirror
    origin,        \* the remote named origin of the mirror: none, url, other
    fetchHead,     \* FETCH_HEAD of the mirror, 0 when absent
    fetchCommit,   \* pull_repo's local fetch_commit, 0 before it is set
    outcome,       \* outcome of the current/last cycle
    failedStage,   \* stage of the panic that ended the timer task
    schedLog,      \* println! lines of the current cycle
    preMaster,     \* master when the current cycle started
    preHead,       \* HEAD when the current cycle started
    preWt,         \* working tree when the current cycle started
    cycleFetched,  \* the fetch of the current cycle has completed
    sigMidPull,    \* a terminal event arrived while a cycle was in flight
    lastRead       \* what the last HTTP read of the tree saw: none, whole, mixed

restProcVars == <<serverState, serverResult, sigDelivered, winner, exitCode, log>>
procVars == <<mainPc, restProcVars>>
dirVars == <<dirKind, initDir, accessible, cloneCalls>>
upVars == <<numCommits, parent, upTip>>
repoVars == <<master, head, wt, origin, fetchHead>>
cycleVars == <<schedPc, fetchCommit, outcome, failedStage, schedLog,
               preMaster, preHead, preWt, cycleFetched>>
vars == <<procVars, dirVars, upVars, repoVars, cycleVars, sigMidPull, lastRead>>

(***************************************************************************)
(* Pure helpers                                                            *)
(***************************************************************************)

\* a is b or an ancestor of b in the commit graph par.
RECURSIVE IsAncestorOrEq(_, _, _)
IsAncestorOrEq(par, a, b) ==
    IF b = 0 THEN FALSE
    ELSE IF a = b THEN TRUE
    ELSE IsAncestorOrEq(par, a, par[b])

IsStrictAncestor(par, a, b) == a # b /\ IsAncestorOrEq(par, a, b)

Diverged(par, a, b) == ~IsAncestorOrEq(par, a, b) /\ ~IsAncestorOrEq(par, b, a)

\* A fresh checkout of commit c: every file at c's version.
FreshCheckout(c) == [f \in Files |-> c]

\* The commit HEAD resolves to.
HeadCommit(h, m) == IF h = 0 THEN m ELSE h

\* Path::exists (line 37).
PathExists_Inverted(d) == d = "absent"
PathExists(d) == d # "absent"

\* The working tree RepoBuilder::clone leaves (lines 116-120): the builder is
\* not bare, the tip of the remote's branch is checked out.
ClonedTree_Bare(tip) == FreshCheckout(0)
ClonedTree(tip) == FreshCheckout(tip)

\* Where main goes when clone fails: .expect panics (line 121).
CloneFailurePc_Continue == "spawn"
CloneFailurePc == "aborted"

\* The refspec "refs/heads/*:refs/heads/*" (line 137) has no leading '+':
\* an existing local branch is moved only to a descendant of its target.
FetchRefUpdate_Forced(par, old, new) == new
FetchRefUpdate(par, old, new) ==
    IF old = 0 \/ IsStrictAncestor(par, old, new) THEN new ELSE old

\* merge_analysis of HEAD against the fetched commit (lines 150-152), as the
\* branches of lines 154-170 read it: up-to-date first, then fast-forward.
MergeAnalysis_NoUpToDate(par, h, theirs) ==
    IF IsAncestorOrEq(par, h, theirs) THEN "fast_forward"
    ELSE IF IsAncestorOrEq(par, theirs, h) THEN "up_to_date"
    ELSE "normal"
MergeAnalysis_NoNormal(par, h, theirs) ==
    IF IsAncestorOrEq(par, theirs, h) THEN "up_to_date" ELSE "fast_forward"
MergeAnalysis(par, h, theirs) ==
    IF IsAncestorOrEq(par, theirs, h) THEN "up_to_date"
    ELSE IF IsAncestorOrEq(par, h, theirs) THEN "fast_forward"
    ELSE "normal"

\* Where the timer task goes when Repository::open fails: the if-let of
\* line 62 has no else, the loop goes round to the next tick.
OpenFailurePc == "tick"

\* The line main prints for the server's own termination (lines 79-83).
ServerLogEntry(result) ==
    IF result = "err" THEN "server_closed_abnormally" ELSE "server_closed_normally"

\* Positions of the timer task at which the shared thread is free: not yet
\* polled, awaiting interval.tick() (line 60), or ended by a panic.
AwaitPcs == {"unspawned", "spawned", "tick", "panicked"}
ThreadFree_Always(pc) == TRUE
ThreadFree(pc) == pc \in AwaitPcs

\* Where main goes after the select! arm of the interrupt (lines 85-90).
AfterInterruptPc_SkipLog == "return"
AfterInterruptPc == "shutdown_log"

(***************************************************************************)
(* Initial states: the process has read its configuration (lines 31-32).   *)
(* The remote has the commits 1 <- 2 and 1 <- 3; its master is at 1 or 2.  *)
(* repo.path is absent, a directory that is no repository, or a mirror     *)
(* left by an earlier run: master at any commit, HEAD on master or         *)
(* detached, a clean working tree, the remote origin present or not.       *)
(***************************************************************************)
InitParent == <<0, 1, 1>>

Init ==
    /\ mainPc = "start"
    /\ schedPc = "unspawned"
    /\ serverState = "none"
    /\ serverResult = "none"
    /\ sigDelivered = FALSE
    /\ winner = "none"
    /\ exitCode = -1
    /\ log = <<>>
    /\ dirKind \in {"absent", "repo", "notrepo"}
    /\ initDir = dirKind
    /\ accessible = TRUE
    /\ cloneCalls = 0
    /\ numCommits = Len(InitParent)
    /\ parent = InitParent
    /\ upTip \in {1, 2}
    /\ IF dirKind = "repo"
       THEN /\ master \in 1..Len(InitParent)
            /\ head \in 0..Len(InitParent)
            /\ wt = FreshCheckout(HeadCommit(head, master))
            /\ origin \in {"none", "url", "other"}
       ELSE /\ master = 0
            /\ head = 0
            /\ wt = FreshCheckout(0)
            /\ origin = "none"
    /\ fetchHead = 0
    /\ fetchCommit = 0
    /\ outcome = "none"
    /\ failedStage = "none"
    /\ schedLog = <<>>
    /\ preMaster = 0
    /\ preHead = 0
    /\ preWt = FreshCheckout(0)
    /\ cycleFetched = FALSE
    /\ sigMidPull = FALSE
    /\ lastRead = "none"

\* The process is alive: main has neither returned nor panicked.
Alive == mainPc \notin {"exited", "aborted"}

(***************************************************************************)
(* main (lines 29-93)                                                      *)
(***************************************************************************)

\* Lines 35-42: use the directory when it exists, else clone.
CheckPath ==
    /\ mainPc = "start"
    /\ IF PathExists(dirKind)
       THEN /\ log' = Append(log, "using_existing_directory")
            /\ mainPc' = "spawn"
       ELSE /\ log' = Append(log, "cloning_repository")
            /\ mainPc' = "clone"
    /\ UNCHANGED <<serverState, serverResult, sigDelivered, winner, exitCode>>
    /\ UNCHANGED <<dirVars, upVars, repoVars, cycleVars, sigMidPull, lastRead>>

\* Lines 41, 95-122: clone_repo. A successful clone creates the mirror at the
\* remote's tip; a failed one panics main (.expect, line 121), status 101.
CloneRepo ==
    /\ mainPc = "clone"
    /\ cloneCalls' = cloneCalls + 1
    /\ \E ok \in BOOLEAN :
        IF ok
        THEN /\ dirKind' = "repo"
             /\ master' = upTip
             /\ head' = 0
             /\ wt' = ClonedTree(upTip)
             /\ origin' = "url"
             /\ fetchHead' = upTip
             /\ mainPc' = "spawn"
             /\ exitCode' = exitCode
        ELSE /\ mainPc' = CloneFailurePc
             /\ exitCode' = IF CloneFailurePc = "aborted" THEN 101 ELSE exitCode
             /\ UNCHANGED <<dirKind, repoVars>>
    /\ UNCHANGED <<serverState, serverResult, sigDelivered, winner, log>>
    /\ UNCHANGED <<initDir, accessible, upVars, cycleVars, sigMidPull, lastRead>>

\* Lines 44-66: log, then spawn the timer task (not polled before main awaits).
SpawnScheduler ==
    /\ mainPc = "spawn"
    /\ log' = Append(log, "starting_web_server")
    /\ schedPc' = "spawned"
    /\ mainPc' = "bind"
    /\ UNCHANGED <<serverState, serverResult, sigDelivered, winner, exitCode>>
    /\ UNCHANGED <<fetchCommit, outcome, failedStage, schedLog,
                   preMaster, preHead, preWt, cycleFetched>>
    /\ UNCHANGED <<dirVars, upVars, repoVars, sigMidPull, lastRead>>

\* Lines 68-74: bind the listener; on failure `?` returns the error from main.
BindServer ==
    /\ mainPc = "bind"
    /\ \E ok \in BOOLEAN :
        IF ok
        THEN /\ serverState' = "bound"
             /\ log' = Append(log, "web_server_started")
             /\ mainPc' = "run"
             /\ exitCode' = exitCode
        ELSE /\ serverState' = "bind_failed"
             /\ log' = log
             /\ mainPc' = "exited"
             /\ exitCode' = 1
    /\ UNCHANGED <<serverResult, sigDelivered, winner>>
    /\ UNCHANGED <<dirVars, upVars, repoVars, cycleVars, sigMidPull, lastRead>>

\* Line 76: server.run(), then main awaits in select! (line 77).
RunServer ==
    /\ mainPc = "run"
    /\ serverState' = "running"
    /\ mainPc' = "select"
    /\ UNCHANGED <<serverResult, sigDelivered, winner, exitCode, log>>
    /\ UNCHANGED <<dirVars, upVars, repoVars, cycleVars, sigMidPull, lastRead>>

\* Lines 78-84: the server future resolved first.
SelectServer ==
    /\ mainPc = "select"
    /\ serverState = "terminated"
    /\ ThreadFree(schedPc)
    /\ log' = Append(log, ServerLogEntry(serverResult))
    /\ winner' = "server"
    /\ mainPc' = "shutdown_log"
    /\ UNCHANGED <<serverState, serverResult, sigDelivered, exitCode>>
    /\ UNCHANGED <<dirVars, upVars, repoVars, cycleVars, sigMidPull, lastRead>>

\* Lines 85-87: ctrl_c resolved first.
SelectCtrlC ==
    /\ mainPc = "select"
    /\ sigDelivered
    /\ ThreadFree(schedPc)
    /\ log' = Append(log, "signal_received")
    /\ winner' = "interrupt"
    /\ mainPc' = AfterInterruptPc
    /\ UNCHANGED <<serverState, serverResult, sigDelivered, exitCode>>
    /\ UNCHANGED <<dirVars, upVars, repoVars, cycleVars, sigMidPull, lastRead>>

\* Line 90: the final shutdown line.
ShutdownLog ==
    /\ mainPc = "shutdown_log"
    /\ log' = Append(log, "graceful_shutdown_done")
    /\ mainPc' = "return"
    /\ UNCHANGED <<serverState, serverResult, sigDelivered, winner, exitCode>>
    /\ UNCHANGED <<dirVars, upVars, repoVars, cycleVars, sigMidPull, lastRead>>

\* Line 92: Ok(()) - the process exits with status 0, which ends the server
\* and drops the timer task.
ReturnOk ==
    /\ mainPc = "return"
    /\ mainPc' = "exited"
    /\ exitCode' = 0
    /\ serverState' = "stopped"
    /\ UNCHANGED <<serverResult, sigDelivered, winner, log>>
    /\ UNCHANGED <<dirVars, upVars, repoVars, cycleVars, sigMidPull, lastRead>>

(***************************************************************************)
(* The timer task (lines 57-66) and pull_repo (lines 124-171).  It runs on *)
(* main's thread, so only while main is suspended in select!.              *)
(***************************************************************************)
SchedRuns == mainPc = "select"

\* Every .expect of pull_repo panics inside the spawned task: the task ends,
\* the process goes on.
Panic(stage) ==
    /\ schedPc' = "panicked"
    /\ outcome' = "Failed"
    /\ failedStage' = stage

\* What a panic of the spawned task (line 57) does to main: nothing, the
\* runtime catches the unwinding at the task's boundary.
AfterTaskPanic_Abort(pc) == "aborted"
AfterTaskPanic(pc) == pc

\* main's position after a step of pull_repo.
MainAfterStep ==
    mainPc' = IF schedPc' = "panicked" THEN AfterTaskPanic(mainPc) ELSE mainPc

\* interval.tick().await (line 60) is reached only at the top of the loop:
\* before the first cycle and after pull_repo has returned (line 63).
TickReady_Always(pc) == TRUE
TickReady(pc) == pc \in {"spawned", "tick"}

\* Lines 60-61: the interval fires, the cycle starts.
Tick ==
    /\ SchedRuns
    /\ TickReady(schedPc)
    /\ schedPc' = "open"
    /\ schedLog' = <<"pulling_updates">>
    /\ outcome' = "none"
    /\ fetchCommit' = 0
    /\ cycleFetched' = FALSE
    /\ preMaster' = master
    /\ preHead' = head
    /\ preWt' = wt
    /\ UNCHANGED <<failedStage, procVars, dirVars, upVars, repoVars, sigMidPull, lastRead>>

\* Line 62: Repository::open; a failure skips pull_repo without a word.
OpenRepo ==
    /\ SchedRuns
    /\ schedPc = "open"
    /\ IF dirKind = "repo" /\ accessible
       THEN /\ schedPc' = "remote"
            /\ UNCHANGED <<outcome>>
       ELSE /\ schedPc' = OpenFailurePc
            /\ outcome' = "Skipped"
    /\ UNCHANGED <<fetchCommit, failedStage, schedLog, preMaster, preHead, preWt,
                   cycleFetched>>
    /\ UNCHANGED <<procVars, dirVars, upVars, repoVars, sigMidPull, lastRead>>

\* The remote pull_repo goes on with (lines 131-133): the one find_remote
\* returns, or, when there is none, a new one bound to git_url.
ResolvedOrigin_Rebind(o) == "url"
ResolvedOrigin(o) == IF o = "none" THEN "url" ELSE o

\* Lines 131-133: find_remote("origin"), or create it bound to git_url.
ResolveRemote ==
    /\ SchedRuns
    /\ schedPc = "remote"
    /\ IF origin # "none"
       THEN /\ schedPc' = "fetch"
            /\ origin' = ResolvedOrigin(origin)
            /\ UNCHANGED <<outcome, failedStage>>
       ELSE \E ok \in BOOLEAN :
              IF ok
              THEN /\ origin' = ResolvedOrigin(origin)
                   /\ schedPc' = "fetch"
                   /\ UNCHANGED <<outcome, failedStage>>
              ELSE /\ Panic("create_remote")
                   /\ UNCHANGED origin
    /\ UNCHANGED <<master, head, wt, fetchHead>>
    /\ UNCHANGED <<fetchCommit, schedLog, preMaster, preHead, preWt, cycleFetched>>
    /\ MainAfterStep /\ UNCHANGED <<restProcVars, dirVars, upVars, sigMidPull, lastRead>>

\* Lines 135-141: fetch refs/heads/*:refs/heads/*. The remote's master is
\* written into the mirror's own refs/heads/master and into FETCH_HEAD.
Fetch ==
    /\ SchedRuns
    /\ schedPc = "fetch"
    /\ \E ok \in BOOLEAN :
        IF ok
        THEN /\ master' = FetchRefUpdate(parent, master, upTip)
             /\ fetchHead' = upTip
             /\ cycleFetched' = TRUE
             /\ schedPc' = "fetch_head"
             /\ UNCHANGED <<outcome, failedStage>>
        ELSE /\ Panic("fetch")
             /\ UNCHANGED <<master, fetchHead, cycleFetched>>
    /\ UNCHANGED <<head, wt, origin>>
    /\ UNCHANGED <<fetchCommit, schedLog, preMaster, preHead, preWt>>
    /\ MainAfterStep /\ UNCHANGED <<restProcVars, dirVars, upVars, sigMidPull, lastRead>>

\* Lines 143-148: FETCH_HEAD and its annotated commit.
FindFetchHead ==
    /\ SchedRuns
    /\ schedPc = "fetch_head"
    /\ \E ok \in BOOLEAN :
        IF ok /\ fetchHead # 0
        THEN /\ fetchCommit' = fetchHead
             /\ schedPc' = "analysis"
             /\ UNCHANGED <<outcome, failedStage>>
        ELSE /\ Panic("fetch_head")
             /\ UNCHANGED fetchCommit
    /\ UNCHANGED <<schedLog, preMaster, preHead, preWt, cycleFetched>>
    /\ MainAfterStep /\ UNCHANGED <<restProcVars, dirVars, upVars, repoVars, sigMidPull, lastRead>>

\* Lines 150-157, 168-170: merge analysis and the choice of the branch.
Analyze ==
    /\ SchedRuns
    /\ schedPc = "analysis"
    /\ \E ok \in BOOLEAN :
        IF ok
        THEN LET a == MergeAnalysis(parent, HeadCommit(head, master), fetchCommit) IN
             /\ failedStage' = failedStage
             /\ IF a = "up_to_date"
                THEN /\ schedLog' = Append(schedLog, "already_up_to_date")
                     /\ outcome' = "UpToDate"
                     /\ schedPc' = "tick"
                ELSE IF a = "fast_forward"
                THEN /\ schedLog' = Append(schedLog, "performing_fast_forward")
                     /\ outcome' = outcome
                     /\ schedPc' = "ff_find_master"
                ELSE /\ schedLog' = Append(schedLog, "merge_required_not_implemented")
                     /\ outcome' = "DivergedUnsupported"
                     /\ schedPc' = "tick"
        ELSE /\ Panic("merge_analysis")
             /\ UNCHANGED schedLog
    /\ UNCHANGED <<fetchCommit, preMaster, preHead, preWt, cycleFetched>>
    /\ MainAfterStep /\ UNCHANGED <<restProcVars, dirVars, upVars, repoVars, sigMidPull, lastRead>>

\* Lines 158-160: find_reference("refs/heads/master").
FindMaster ==
    /\ SchedRuns
    /\ schedPc = "ff_find_master"
    /\ \E ok \in BOOLEAN :
        IF ok
        THEN /\ schedPc' = "ff_set_target"
             /\ UNCHANGED <<outcome, failedStage>>
        ELSE Panic("find_master")
    /\ UNCHANGED <<fetchCommit, schedLog, preMaster, preHead, preWt, cycleFetched>>
    /\ MainAfterStep /\ UNCHANGED <<restProcVars, dirVars, upVars, repoVars, sigMidPull, lastRead>>

\* Lines 161-163: reference.set_target(fetch_commit.id()).
SetTarget ==
    /\ SchedRuns
    /\ schedPc = "ff_set_target"
    /\ \E ok \in BOOLEAN :
        IF ok
        THEN /\ master' = fetchCommit
             /\ schedPc' = "ff_set_head"
             /\ UNCHANGED <<outcome, failedStage>>
        ELSE /\ Panic("set_target")
             /\ UNCHANGED master
    /\ UNCHANGED <<head, wt, origin, fetchHead>>
    /\ UNCHANGED <<fetchCommit, schedLog, preMaster, preHead, preWt, cycleFetched>>
    /\ MainAfterStep /\ UNCHANGED <<restProcVars, dirVars, upVars, sigMidPull, lastRead>>

\* Lines 164-165: repo.set_head("refs/heads/master").
SetHead ==
    /\ SchedRuns
    /\ schedPc = "ff_set_head"
    /\ \E ok \in BOOLEAN :
        IF ok
        THEN /\ head' = 0
             /\ schedPc' = "ff_checkout"
             /\ UNCHANGED <<outcome, failedStage>>
        ELSE /\ Panic("set_head")
             /\ UNCHANGED head
    /\ UNCHANGED <<master, wt, origin, fetchHead>>
    /\ UNCHANGED <<fetchCommit, schedLog, preMaster, preHead, preWt, cycleFetched>>
    /\ MainAfterStep /\ UNCHANGED <<restProcVars, dirVars, upVars, sigMidPull, lastRead>>

\* Lines 166-167: checkout_head(force) rewrites the files one at a time.
CheckoutFile ==
    /\ SchedRuns
    /\ schedPc = "ff_checkout"
    /\ \E f \in Files :
        /\ wt[f] # HeadCommit(head, master)
        /\ wt' = [wt EXCEPT ![f] = HeadCommit(head, master)]
    /\ UNCHANGED <<master, head, origin, fetchHead>>
    /\ UNCHANGED <<cycleVars, procVars, dirVars, upVars, sigMidPull, lastRead>>

\* Lines 166-167: checkout_head returned Ok; pull_repo returns.
CheckoutDone ==
    /\ SchedRuns
    /\ schedPc = "ff_checkout"
    /\ wt = FreshCheckout(HeadCommit(head, master))
    /\ outcome' = "FastForwarded"
    /\ schedPc' = "tick"
    /\ UNCHANGED <<fetchCommit, failedStage, schedLog, preMaster, preHead, preWt,
                   cycleFetched>>
    /\ UNCHANGED <<procVars, dirVars, upVars, repoVars, sigMidPull, lastRead>>

\* Lines 166-167: checkout_head returned Err, at any point of the rewrite.
CheckoutFail ==
    /\ SchedRuns
    /\ schedPc = "ff_checkout"
    /\ Panic("checkout")
    /\ UNCHANGED <<fetchCommit, schedLog, preMaster, preHead, preWt, cycleFetched>>
    /\ MainAfterStep /\ UNCHANGED <<restProcVars, dirVars, upVars, repoVars, sigMidPull, lastRead>>

(***************************************************************************)
(* The environment                                                         *)
(***************************************************************************)
\* Positions inside pull_repo, and those of a cycle between tick and outcome.
PullPcs == {"remote", "fetch", "fetch_head", "analysis",
            "ff_find_master", "ff_set_target", "ff_set_head", "ff_checkout"}
InFlightPcs == {"open"} \cup PullPcs

\* The remote's master gets a new commit on top of its tip.
UpstreamPush ==
    /\ Alive
    /\ numCommits < MaxCommits
    /\ numCommits' = numCommits + 1
    /\ parent' = Append(parent, upTip)
    /\ upTip' = numCommits + 1
    /\ UNCHANGED <<procVars, dirVars, repoVars, cycleVars, sigMidPull, lastRead>>

\* The remote's master is rewritten: its tip is replaced by a sibling.
UpstreamRewrite ==
    /\ Alive
    /\ numCommits < MaxCommits
    /\ parent[upTip] # 0
    /\ numCommits' = numCommits + 1
    /\ parent' = Append(parent, parent[upTip])
    /\ upTip' = numCommits + 1
    /\ UNCHANGED <<procVars, dirVars, repoVars, cycleVars, sigMidPull, lastRead>>

\* An interrupt signal is delivered to the process while main awaits
\* signal::ctrl_c() in select! (line 85); the handler exists from then on.
Interrupt ==
    /\ mainPc = "select"
    /\ ~sigDelivered
    /\ sigDelivered' = TRUE
    /\ sigMidPull' = (sigMidPull \/ schedPc \in PullPcs)
    /\ UNCHANGED <<mainPc, serverState, serverResult, winner, exitCode, log>>
    /\ UNCHANGED <<dirVars, upVars, repoVars, cycleVars, lastRead>>

\* The running server ends on its own, with Ok or Err (awaited at line 78).
ServerTerminates ==
    /\ Alive
    /\ serverState = "running"
    /\ \E r \in {"ok", "err"} : serverResult' = r
    /\ serverState' = "terminated"
    /\ sigMidPull' = (sigMidPull \/ schedPc \in PullPcs)
    /\ UNCHANGED <<mainPc, sigDelivered, winner, exitCode, log>>
    /\ UNCHANGED <<dirVars, upVars, repoVars, cycleVars, lastRead>>

\* Files::new("/", path) (lines 68-70) serves reads of the directory on the
\* worker threads whatever the timer task is doing: no lock, no snapshot.
ReadAllowed_NotDuringCheckout(pc) == pc # "ff_checkout"
ReadAllowed(pc) == TRUE

\* What a read of the whole tree finds: every file of one commit, or a mix.
Observed(tree) ==
    IF \E c \in 0..MaxCommits : tree = FreshCheckout(c) THEN "whole" ELSE "mixed"

\* An HTTP client reads the served tree (lines 68-72); nothing is written.
ServerRead ==
    /\ serverState = "running"
    /\ ReadAllowed(schedPc)
    /\ lastRead' = Observed(wt)
    /\ UNCHANGED <<procVars, dirVars, upVars, repoVars, cycleVars, sigMidPull>>

\* repo.path becomes unreachable, or reachable again.
ToggleAccess ==
    /\ Alive
    /\ accessible' = ~accessible
    /\ UNCHANGED <<dirKind, initDir, cloneCalls>>
    /\ UNCHANGED <<procVars, upVars, repoVars, cycleVars, sigMidPull, lastRead>>

Next ==
    \/ CheckPath \/ CloneRepo \/ SpawnScheduler \/ BindServer \/ RunServer
    \/ SelectServer \/ SelectCtrlC \/ ShutdownLog \/ ReturnOk
    \/ Tick \/ OpenRepo \/ ResolveRemote \/ Fetch \/ FindFetchHead \/ Analyze
    \/ FindMaster \/ SetTarget \/ SetHead \/ CheckoutFile \/ CheckoutDone
    \/ CheckoutFail
    \/ UpstreamPush \/ UpstreamRewrite \/ Interrupt \/ ServerTerminates
    \/ ToggleAccess \/ ServerRead

Spec == Init /\ [][Next]_vars

TypeOK ==
    /\ mainPc \in {"start", "clone", "spawn", "bind", "run", "select",
                   "shutdown_log", "return", "exited", "aborted"}
    /\ schedPc \in AwaitPcs \cup InFlightPcs
    /\ master \in 0..MaxCommits /\ head \in 0..MaxCommits
    /\ upTip \in CommitIds /\ numCommits \in CommitIds
    /\ wt \in [Files -> 0..MaxCommits]
    /\ cloneCalls \in 0..1

(***************************************************************************)
(* Properties                                                              *)
(***************************************************************************)

\* A cycle that ran pull_repo to one of its three println! outcomes.
Completed == outcome \in {"UpToDate", "FastForwarded", "DivergedUnsupported"}

\* HEAD resolved to the tip of master when the cycle started: the "local
\* tip" is then the same commit for the mirror's branch and for HEAD.
StartedAtMaster == HeadCommit(preHead, preMaster) = preMaster

\* C1: every completed cycle whose fetched commit is a strict descendant of
\* the master tip the cycle started with reports Fast-forwarded, leaves
\* master at the fetched commit, HEAD on master, and the working tree equal
\* to a fresh checkout of the fetched commit.
C1_DescendantIsFastForwarded ==
    (Completed /\ cycleFetched /\ IsStrictAncestor(parent, preMaster, fetchHead))
        => /\ outcome = "FastForwarded"
           /\ master = fetchHead
           /\ head = 0
           /\ wt = FreshCheckout(fetchHead)

\* C2: after a cycle that ended Failed the timer loop is still there: while
\* the process runs, its next tick can fire.
C2_FailedCycleKeepsLoop ==
    (outcome = "Failed" /\ mainPc = "select") => ENABLED Tick

C5_CloneIffAbsent ==
    /\ cloneCalls <= 1
    /\ (initDir # "absent") => cloneCalls = 0
    /\ (mainPc \notin {"start", "clone"} /\ initDir = "absent") => cloneCalls = 1

C5_Witness ==
    /\ mainPc = "select"
    /\ initDir = "absent"
    /\ cloneCalls = 1

\* C6: whenever the timer task has been spawned or the server has been
\* created, repo.path exists; and after a failed clone the process has
\* aborted with neither of them started.
C6_StartedOnlyWithMirror ==
    /\ (schedPc # "unspawned" \/ serverState # "none") => dirKind # "absent"
    /\ (mainPc = "aborted") => (schedPc = "unspawned" /\ serverState = "none")
    /\ (cloneCalls = 1 /\ dirKind = "absent") => mainPc = "aborted"

C6_Witness ==
    /\ initDir = "absent"
    /\ schedPc # "unspawned"
    /\ serverState = "running"

\* C7: after a tick that could not open the mirror, the cycle was skipped,
\* its failure was logged, and the loop waits for the next tick.
C7_SkipIsLogged ==
    (outcome = "Skipped")
        => /\ schedPc = "tick"
           /\ \E i \in DOMAIN schedLog : schedLog[i] = "open_failed"

\* C8: when the process has exited through select!, the line of the arm that
\* won and then the final shutdown line end main's log, the server has
\* stopped and the status is 0; with the interrupt delivered and the server
\* not terminated on its own, the arm that won is the interrupt's.
C8_ExitAfterWinnerLogged ==
    /\ (mainPc = "exited" /\ winner # "none")
         => /\ Len(log) >= 2
            /\ log[Len(log)] = "graceful_shutdown_done"
            /\ log[Len(log) - 1] =
                 (IF winner = "interrupt" THEN "signal_received"
                  ELSE ServerLogEntry(serverResult))
            /\ serverState = "stopped"
            /\ exitCode = 0
    /\ (mainPc \in {"shutdown_log", "return", "exited"} /\ serverResult = "none"
        /\ serverState # "bind_failed")
         => (sigDelivered /\ winner = "interrupt")

C8_Witness ==
    /\ mainPc = "exited"
    /\ winner = "interrupt"
    /\ serverResult = "none"
    /\ exitCode = 0

\* C9: whenever the process has exited after the server ended on its own,
\* a failed bind included, main's log holds the error line (the clean line
\* for a clean stop) followed by the final shutdown line.
C9_ServerEndGoesThroughShutdown ==
    (mainPc = "exited" /\ (serverState = "bind_failed" \/ winner = "server"))
        => /\ Len(log) >= 2
           /\ log[Len(log)] = "graceful_shutdown_done"
           /\ log[Len(log) - 1] =
                (IF serverResult = "ok" THEN "server_closed_normally"
                 ELSE "server_closed_abnormally")

\* C10: the process never exits while a cycle is between its tick and its
\* outcome: at exit the timer task is at an await point, and if a cycle ever
\* started, the last one has reached an outcome.
C10_NoCycleCutOff ==
    (~Alive)
        => /\ schedPc \notin InFlightPcs
           /\ (schedLog # <<>>) =>
                outcome \in {"UpToDate", "FastForwarded", "DivergedUnsupported",
                             "Failed", "Skipped"}

C10_Witness ==
    /\ mainPc = "exited"
    /\ sigMidPull
    /\ Completed

\* C11: a Failed cycle touches neither main nor the server. With no
\* interrupt delivered and the server not terminated on its own, main still
\* awaits in select! and the server still runs; and if the process has ended
\* after a Failed cycle, it ended through select! (server termination or
\* interrupt) with status 0.
C11_PullFailureStaysInTask ==
    /\ (outcome = "Failed" /\ serverResult = "none" /\ ~sigDelivered)
         => (mainPc = "select" /\ serverState = "running" /\ exitCode = -1)
    /\ (outcome = "Failed" /\ ~Alive)
         => (mainPc = "exited" /\ winner \in {"server", "interrupt"} /\ exitCode = 0)

C11_Witness ==
    /\ outcome = "Failed"
    /\ mainPc = "select"
    /\ serverState = "running"
    /\ ~sigDelivered

\* C12: a mirror cloned at startup from a remote that has not changed since
\* has master at the remote's tip, HEAD on master and that commit checked
\* out, before and after every cycle; a cycle run on it ends Up-to-date
\* (or fails) and never Fast-forwarded or DivergedUnsupported.
C12_CloneThenUpToDate ==
    (initDir = "absent" /\ dirKind = "repo" /\ numCommits = Len(InitParent))
        => /\ master = upTip
           /\ head = 0
           /\ wt = FreshCheckout(upTip)
           /\ outcome \in {"none", "UpToDate", "Failed", "Skipped"}

C12_Witness ==
    /\ initDir = "absent"
    /\ numCommits = Len(InitParent)
    /\ outcome = "UpToDate"
    /\ master = upTip
    /\ preMaster = upTip

\* The mirror's master once the cycle's fetch has run, and the commit HEAD
\* then resolves to: what the cycle's merge analysis compares.
MasterAfterFetch == FetchRefUpdate(parent, preMaster, fetchHead)
HeadAfterFetch == HeadCommit(preHead, MasterAfterFetch)

\* C13: a cycle reaches one of the three outcomes only after its fetch, and
\* the outcome is the class of the analysed pair: Up-to-date iff the fetched
\* commit is HEAD's commit or an ancestor of it, Fast-forwarded iff HEAD's
\* commit is a strict ancestor of the fetched one, DivergedUnsupported iff
\* neither. Outside Fast-forwarded the steps after the fetch leave master,
\* HEAD and the working tree alone; Fast-forwarded leaves master at the
\* fetched commit, HEAD on master and that commit checked out. A Failed
\* cycle names its stage.
C13_OneOutcomePerCycle ==
    /\ Completed =>
         /\ cycleFetched
         /\ fetchCommit = fetchHead
         /\ Len(schedLog) = 2
         /\ (outcome = "UpToDate")
              <=> IsAncestorOrEq(parent, fetchCommit, HeadAfterFetch)
         /\ (outcome = "FastForwarded")
              <=> IsStrictAncestor(parent, HeadAfterFetch, fetchCommit)
         /\ (outcome = "DivergedUnsupported")
              <=> Diverged(parent, HeadAfterFetch, fetchCommit)
         /\ (outcome # "FastForwarded")
              => (master = MasterAfterFetch /\ head = preHead /\ wt = preWt)
         /\ (outcome = "FastForwarded")
              => (master = fetchCommit /\ head = 0 /\ wt = FreshCheckout(fetchCommit))
    /\ (outcome = "Failed") <=> (failedStage # "none")
    /\ (outcome = "Failed") => schedPc = "panicked"

C13_Witness ==
    /\ outcome = "FastForwarded"
    /\ master = fetchCommit
    /\ wt # preWt

\* C14: after a Failed cycle of a mirror that was consistent when the cycle
\* started (HEAD resolving to master's tip, that commit checked out), the
\* mirror is consistent again: HEAD resolves to master's tip and the working
\* tree is a checkout of it.
C14_FailedCycleLeavesConsistentMirror ==
    (outcome = "Failed" /\ StartedAtMaster /\ preWt = FreshCheckout(preMaster))
        => /\ HeadCommit(head, master) = master
           /\ wt = FreshCheckout(master)

\* What is on disk at repo.path that clone and pull write.
mirrorState == <<dirKind, master, head, wt, origin, fetchHead>>

\* C15: every step that changes the mirror is a step of clone_repo or of a
\* running pull_repo (an HTTP read, a tick, main's other steps change
\* nothing of it); and while a pull_repo is running no tick starts another
\* cycle: the running one goes on, returns or panics.
C15_SingleWriter ==
    [][ /\ (mirrorState' # mirrorState) => (mainPc = "clone" \/ schedPc \in PullPcs)
        /\ (schedPc \in PullPcs) => (schedPc' \in PullPcs \cup {"tick", "panicked"})
      ]_vars

C15_Witness ==
    /\ schedPc \in PullPcs
    /\ master # preMaster
    /\ lastRead # "none"

\* C16: nothing keeps an HTTP read out while checkout_head has rewritten
\* some files and not the others: in every such state of a running server
\* the read can happen, and it finds a tree that is no commit's checkout.
C16_ReadDuringCheckoutPossible ==
    (schedPc = "ff_checkout" /\ serverState = "running" /\ Observed(wt) = "mixed")
        => ENABLED ServerRead

C16_Witness ==
    /\ schedPc = "ff_checkout"
    /\ lastRead = "mixed"
    /\ wt # preWt
    /\ wt # FreshCheckout(HeadCommit(head, master))

\* C17: past the remote-resolution step of a cycle the mirror has its remote
\* origin; and the remote origin only ever changes from absent to one bound
\* to git_url, in that step or in clone: an existing origin, whatever it is
\* bound to, is never rebound or replaced.
C17_OneOriginNeverRebound ==
    /\ [](schedPc \in (PullPcs \ {"remote"}) => origin # "none")
    /\ [][(origin' # origin)
            => /\ origin = "none"
               /\ origin' = "url"
               /\ (schedPc = "remote" \/ mainPc = "clone")]_vars

C17_Witness ==
    /\ origin = "other"
    /\ initDir = "repo"
    /\ Completed

====
